---- MODULE Spec2Model ----
(***************************************************************************)
(* State-machine model of the two training drivers of tbd-suite:           *)
(*   - ImageClassification-Resnet_50 (TensorFlow2): Task.compile_model,    *)
(*     get_num_train_iterations and _steps_to_run;                         *)
(*   - SpeechRecognition-DeepSpeech2 (pytorch): the epoch loop of          *)
(*     training.py main().                                                 *)
(* Each part has its own specification; the variables of the other parts   *)
(* are held at their idle value.                                           *)
(***************************************************************************)
EXTENDS Integers, Sequences, FiniteSets, TLC

\* Python's None, as an argument of compile_model.
None == "None"

(***************************************************************************)
(* Bounds of the model.                                                    *)
(***************************************************************************)
\* compile_model calls made in one behaviour
MaxCalls == 3
\* largest step count given to _steps_to_run
MaxSteps == 3
\* largest dataset size (besides the 1000-image example) in NUM_IMAGES
MaxImages == 6
\* largest flags_obj.batch_size (besides the example's 10)
MaxBatchSize == 3
\* largest flags_obj.train_epochs (besides the example's 5)
MaxTrainEpochs == 2
\* largest flags_obj.train_steps override
MaxTrainSteps == 3
\* largest params.epochs of the speech-recognition run
MaxEpochs == 3
\* largest len(train_loader)
MaxBatches == 2
\* largest params.epochs of the runs whose batches may have an infinite loss
MaxLossEpochs == 1
\* the largest --checks_per_epoch given on the command line
MaxChecks == 2

VARIABLES
    \* ---- Task.compile_model (base_task.py)
    models,       \* each keras model: compiled?, loss, train_step, test_step
    call,         \* the arguments and outcome of the latest compile_model call
    ncalls,       \* number of compile_model calls made
    \* ---- _steps_to_run (resnet_ctl_imagenet_main.py)
    steps_args,   \* the three arguments
    steps_result, \* status "pending", "ValueError" or "returned", and the value
    \* ---- get_num_train_iterations (resnet_ctl_imagenet_main.py)
    NUM_IMAGES,   \* imagenet_preprocessing.NUM_IMAGES
    flags_obj,    \* batch_size, train_epochs, train_steps, steps_per_loop,
                  \* epochs_between_evals
    iter_result,  \* status "pending" or "returned", and the returned triple
    controller_args, \* status "pending" or "returned", and the step counts
                     \* run() gives controller.Controller
    \* ---- training.py main()
    pc,             \* position in main()
    params,         \* model.params: epochs, exit_at_acc, learning_anneal; and
                    \* len(train_loader)
    args,           \* the parsed command line
    package,        \* the checkpoint torch.load returns for --continue_from
    start_epoch, start_iter,
    epoch_iter,     \* the next value range(start_epoch, params.epochs) yields
    epoch,          \* the loop variable of the epoch loop
    i,              \* the counter of enumerate(train_loader, start=start_iter)
    batch_loss,     \* the local loss of the latest batch, a fraction; a zero
                    \* denominator makes it infinite, by the numerator's sign
    avg_loss,       \* a fraction <<numerator, denominator>>
    losses,         \* the AverageMeter: the value its latest update was given
    wer, cer,       \* <<>> while the local is unbound, else <<value>>
    best_wer,       \* <<>> for None, else <<value>>
    lr,             \* optimizer learning rate, a fraction
    loss_results, wer_results, cer_results,
    ckpt_writes,    \* torch.save calls on deepspeech_<n>.pth, in order
    best_writes,    \* torch.save calls on args.model_path, in order
    train_summaries,\* the epoch numbers of the printed training summaries
    eval_calls,     \* number of eval_model calls made
    eval_failures,  \* the epochs whose eval_model raised RuntimeError
    exc             \* the exception that left main(), or "none"

compile_vars == <<models, call, ncalls>>
steps_vars == <<steps_args, steps_result>>
iter_vars == <<NUM_IMAGES, flags_obj, iter_result, controller_args>>
train_vars == <<pc, params, args, package, start_epoch, start_iter, epoch_iter,
                epoch, i, batch_loss, avg_loss, losses, wer, cer, best_wer, lr,
                loss_results, wer_results, cer_results, ckpt_writes, best_writes,
                train_summaries, eval_calls, eval_failures, exc>>
vars == <<models, call, ncalls, steps_args, steps_result, NUM_IMAGES, flags_obj,
          iter_result, controller_args, pc, params, args, package, start_epoch, start_iter,
          epoch_iter, epoch, i, batch_loss, avg_loss, losses, wer, cer, best_wer, lr,
          loss_results, wer_results, cer_results, ckpt_writes, best_writes,
          train_summaries, eval_calls, eval_failures, exc>>

Min(a, b) == IF a <= b THEN a ELSE b
Max(a, b) == IF a >= b THEN a ELSE b

(***************************************************************************)
(* Task.compile_model                                                      *)
(***************************************************************************)
ModelIds == {"model_a", "model_b"}
LossArgs == {None, "loss_fn"}
TrainStepArgs == {None, "task_train_step"}
ValidationStepArgs == {None, "task_validation_step"}

FreshModel ==
    [compiled |-> FALSE, loss |-> None,
     train_step |-> "keras_train_step", test_step |-> "keras_test_step"]

NoCall == [model |-> None, loss |-> None, train_step |-> None,
           validation_step |-> None, outcome |-> "none"]

CompileIdle ==
    /\ models = [m \in ModelIds |-> FreshModel]
    /\ call = NoCall
    /\ ncalls = 0

\* A slip of the guard: only the both-supplied combination is rejected.
NotExclusive_OnlyBoth(loss, train_step) ==
    loss # None /\ train_step # None

\* A slip of the guard: the comparison is negated.
NotExclusive_Negated(loss, train_step) ==
    (loss = None) # (train_step = None)

\* base_task.py:91  bool(loss is None) == bool(train_step is None)
NotExclusive(loss, train_step) ==
    (loss = None) = (train_step = None)

\* base_task.py:94-100  the model after model.compile and the two replacements
Compiled(m, loss, train_step, validation_step) ==
    [compiled |-> TRUE,
     loss |-> loss,
     train_step |-> IF train_step # None THEN train_step ELSE m.train_step,
     test_step |-> IF validation_step # None THEN validation_step ELSE m.test_step]

\* base_task.py:68-101
compile_model(id, loss, train_step, validation_step) ==
    /\ ncalls < MaxCalls
    /\ ncalls' = ncalls + 1
    /\ IF NotExclusive(loss, train_step)
       THEN /\ call' = [model |-> id, loss |-> loss, train_step |-> train_step,
                        validation_step |-> validation_step,
                        outcome |-> "ValueError"]
            /\ UNCHANGED models
       ELSE /\ call' = [model |-> id, loss |-> loss, train_step |-> train_step,
                        validation_step |-> validation_step,
                        outcome |-> "returned"]
            /\ models' = [models EXCEPT
                            ![id] = Compiled(@, loss, train_step, validation_step)]

(***************************************************************************)
(* _steps_to_run                                                           *)
(***************************************************************************)
StepInputs == (0 - 1) .. MaxSteps

Pending == [status |-> "pending", value |-> 0]
Raised(e) == [status |-> e, value |-> 0]
Returned(v) == [status |-> "returned", value |-> v]

StepsIdle ==
    /\ steps_args = [steps_in_current_epoch |-> 0, steps_per_epoch |-> 0,
                     steps_per_loop |-> 0]
    /\ steps_result = Pending

\* A slip: the steps_per_loop == 1 shortcut is left out.
steps_to_run_NoShortcut(steps_in_current_epoch, steps_per_epoch, steps_per_loop) ==
    IF steps_per_loop <= 0 THEN Raised("ValueError")
    ELSE Returned(Min(steps_per_loop, steps_per_epoch - steps_in_current_epoch))

\* resnet_ctl_imagenet_main.py:101-107
steps_to_run(steps_in_current_epoch, steps_per_epoch, steps_per_loop) ==
    IF steps_per_loop <= 0 THEN Raised("ValueError")
    ELSE IF steps_per_loop = 1 THEN Returned(steps_per_loop)
    ELSE Returned(Min(steps_per_loop, steps_per_epoch - steps_in_current_epoch))

CallStepsToRun ==
    /\ steps_result = Pending
    /\ steps_result' = steps_to_run(steps_args.steps_in_current_epoch,
                                    steps_args.steps_per_epoch,
                                    steps_args.steps_per_loop)
    /\ UNCHANGED steps_args

(***************************************************************************)
(* get_num_train_iterations                                                *)
(***************************************************************************)
ImageCounts == (0 .. MaxImages) \cup {1000}
BatchSizes == (1 .. MaxBatchSize) \cup {10}
TrainEpochs == (1 .. MaxTrainEpochs) \cup {5}
TrainStepsFlags == (0 .. MaxTrainSteps) \cup {200}
StepsPerLoopFlags == 1 .. MaxSteps
EpochsBetweenEvals == {1, 2}

IterIdle ==
    /\ NUM_IMAGES = [train |-> 0, validation |-> 0]
    /\ flags_obj = [batch_size |-> 1, train_epochs |-> 1, train_steps |-> 0,
                    steps_per_loop |-> 1, epochs_between_evals |-> 1]
    /\ iter_result = Pending
    /\ controller_args = Pending

\* math.ceil(1.0 * a / b) for a >= 0, b >= 1: the quotient, one more when the
\* division leaves a remainder (resnet_ctl_imagenet_main.py:95-96)
CeilOfQuotient(a, b) ==
    IF a % b = 0 THEN a \div b ELSE (a \div b) + 1

\* A slip: a train_steps override leaves train_epochs as the flag has it.
get_num_train_iterations_KeepEpochs(num_images, flags) ==
    LET computed == num_images.train \div flags.batch_size
    IN [train_steps |-> IF flags.train_steps # 0
                        THEN Min(flags.train_steps, computed) ELSE computed,
        train_epochs |-> flags.train_epochs,
        eval_steps |-> CeilOfQuotient(num_images.validation, flags.batch_size)]

\* A slip: a train_steps override is taken as it is.
get_num_train_iterations_NoCap(num_images, flags) ==
    LET computed == num_images.train \div flags.batch_size
    IN [train_steps |-> IF flags.train_steps # 0
                        THEN flags.train_steps ELSE computed,
        train_epochs |-> IF flags.train_steps # 0 THEN 1 ELSE flags.train_epochs,
        eval_steps |-> CeilOfQuotient(num_images.validation, flags.batch_size)]

\* resnet_ctl_imagenet_main.py:85-98
get_num_train_iterations(num_images, flags) ==
    LET computed == num_images.train \div flags.batch_size
    IN [train_steps |-> IF flags.train_steps # 0
                        THEN Min(flags.train_steps, computed) ELSE computed,
        train_epochs |-> IF flags.train_steps # 0 THEN 1 ELSE flags.train_epochs,
        eval_steps |-> CeilOfQuotient(num_images.validation, flags.batch_size)]

\* the call, by itself or at resnet_ctl_imagenet_main.py:149-150 in run()
CallGetNumTrainIterations ==
    /\ iter_result = Pending
    /\ iter_result' = Returned(get_num_train_iterations(NUM_IMAGES, flags_obj))
    /\ UNCHANGED <<NUM_IMAGES, flags_obj, controller_args>>
    /\ UNCHANGED <<compile_vars, steps_vars, train_vars>>

\* resnet_ctl_imagenet_main.py:151, 166, 178-189  the step counts run() hands
\* to controller.Controller, from the triple the call at line 149 returned
controller_arguments(returned, flags) ==
    LET per_epoch_steps == returned.train_steps
        train_epochs == returned.train_epochs
        eval_steps == returned.eval_steps
        steps_per_loop == Min(flags.steps_per_loop, per_epoch_steps)
        eval_interval == flags.epochs_between_evals * per_epoch_steps
    IN [steps_per_loop |-> steps_per_loop,
        train_steps |-> per_epoch_steps * train_epochs,
        eval_steps |-> eval_steps,
        eval_interval |-> eval_interval]

\* resnet_ctl_imagenet_main.py:151-189  run() after the call at line 149
CreateController ==
    /\ iter_result.status = "returned"
    /\ controller_args = Pending
    /\ controller_args' =
         Returned(controller_arguments(iter_result.value, flags_obj))
    /\ UNCHANGED <<NUM_IMAGES, flags_obj, iter_result>>
    /\ UNCHANGED <<compile_vars, steps_vars, train_vars>>

(***************************************************************************)
(* training.py main(): the speech-recognition epoch loop                   *)
(***************************************************************************)
Nothing == <<>>
Just(v) == <<v>>

\* Word and character error rates eval_model may return, the target --acc
\* (its default is 23.0, training.py:237) among them.
WerValues == {10, 23, 30}
CerValues == {5, 8}
AccValues == {23}
\* The loss of a batch, averaged over the minibatch: a fraction.
LossValues == {<<1, 1>>}
\* The same with a second finite value and the two infinities.
LossValuesWithInf == {<<1, 1>>, <<2, 1>>, <<1, 0>>, <<0 - 1, 0>>}
\* params.learning_anneal, a fraction (1.1)
AnnealFactors == {<<11, 10>>}
\* params.lr, and the learning rate held by a loaded optimizer state
InitialLr == <<1, 1>>
PackageLr == <<10, 11>>
\* An entry of torch.Tensor(n) that was never assigned.
Uninit == <<0, 0>>
\* What a loaded checkpoint holds in every entry of its result arrays.
PackageEntry == <<7, 1>>

Epochs(p) == 0 .. (p.epochs - 1)

Params == [epochs : 1 .. MaxEpochs, exit_at_acc : BOOLEAN,
           learning_anneal : AnnealFactors, len_train_loader : 1 .. MaxBatches]

\* training.py:241  default of --checks_per_epoch
DefaultChecksPerEpoch == 4

\* training.py:21  args.checks_per_epoch = max(1, args.checks_per_epoch)
checks_per_epoch(n) == Max(1, n)

ArgsWith(checks) ==
    [checkpoint : BOOLEAN, continue_from : BOOLEAN,
     start_epoch : {0 - 1, 0, MaxEpochs}, acc : AccValues,
     checks_per_epoch : {checks_per_epoch(n) : n \in checks}]

Args == ArgsWith({DefaultChecksPerEpoch})

ArgsWithChecks == ArgsWith(0 .. MaxChecks)

\* A checkpoint written by an earlier run: 'epoch' is absent or the 1-based
\* epoch, 'iteration' is absent or a batch index of that epoch. A checkpoint
\* saved at the end of an epoch (training.py:191) holds no 'avg_loss'.
Packages(p) ==
    {c \in [epoch : {Nothing} \cup {Just(e) : e \in 1 .. p.epochs},
            iteration : {Nothing} \cup
                        {Just(n) : n \in 0 .. (p.len_train_loader - 1)},
            avg_loss : {0, 1}] :
        c.iteration = Nothing => c.avg_loss = 0}

NoPackage == [epoch |-> Nothing, iteration |-> Nothing, avg_loss |-> 0]

TrainIdle ==
    /\ pc = "idle"
    /\ params = [epochs |-> 1, exit_at_acc |-> FALSE,
                 learning_anneal |-> <<11, 10>>, len_train_loader |-> 1]
    /\ args = [checkpoint |-> FALSE, continue_from |-> FALSE,
               start_epoch |-> 0 - 1, acc |-> 23,
               checks_per_epoch |-> checks_per_epoch(DefaultChecksPerEpoch)]
    /\ package = NoPackage
    /\ start_epoch = 0 /\ start_iter = 0 /\ epoch_iter = 0 /\ epoch = 0 /\ i = 0
    /\ batch_loss = <<0, 1>> /\ avg_loss = <<0, 1>> /\ losses = [val |-> <<0, 1>>]
    /\ wer = Nothing /\ cer = Nothing /\ best_wer = Nothing
    /\ lr = InitialLr
    /\ loss_results = <<>> /\ wer_results = <<>> /\ cer_results = <<>>
    /\ ckpt_writes = <<>> /\ best_writes = <<>> /\ train_summaries = <<>>
    /\ eval_calls = 0 /\ eval_failures = {}
    /\ exc = "none"

\* training.py:21-64  the state main() holds when it reaches line 66
TrainInitOf(arguments) ==
    /\ CompileIdle /\ StepsIdle /\ IterIdle
    /\ pc = "load"
    /\ params \in Params
    /\ args \in arguments
    /\ IF args.continue_from
       THEN package \in Packages(params)
       ELSE package = NoPackage /\ args.start_epoch = 0 - 1
    /\ start_epoch = 0 /\ start_iter = 0 /\ epoch_iter = 0 /\ epoch = 0 /\ i = 0
    /\ batch_loss = <<0, 1>> /\ avg_loss = <<0, 1>> /\ losses = [val |-> <<0, 1>>]
    /\ wer = Nothing /\ cer = Nothing /\ best_wer = Nothing
    /\ lr = InitialLr
    /\ loss_results = [e \in Epochs(params) |-> Uninit]
    /\ wer_results = [e \in Epochs(params) |-> Uninit]
    /\ cer_results = [e \in Epochs(params) |-> Uninit]
    /\ ckpt_writes = <<>> /\ best_writes = <<>> /\ train_summaries = <<>>
    /\ eval_calls = 0 /\ eval_failures = {}
    /\ exc = "none"

TrainInit == TrainInitOf(Args)

\* training.py:72  int(package.get('epoch', 1)) - 1
package_start_epoch(p) ==
    (IF p.epoch = Nothing THEN 1 ELSE p.epoch[1]) - 1

\* training.py:73-78  start_epoch after the 'iteration' branch
resume_start_epoch(p) ==
    IF p.iteration = Nothing
    THEN package_start_epoch(p) + 1
    ELSE package_start_epoch(p)

\* A slip: the saved batch is trained again.
resume_start_iter_Repeat(p) ==
    IF p.iteration = Nothing THEN 0 ELSE p.iteration[1]

\* training.py:73-78  start_iter after the 'iteration' branch
resume_start_iter(p) ==
    IF p.iteration = Nothing THEN 0 ELSE p.iteration[1] + 1

\* training.py:84-86  results[:n] = package_results[:n], every package entry
\* being PackageEntry
restore_results(results, n) ==
    [e \in DOMAIN results |-> IF e < n THEN PackageEntry ELSE results[e]]

\* training.py:66-92
LoadCheckpoint ==
    /\ pc = "load"
    /\ IF args.continue_from
       THEN LET se == IF args.start_epoch # 0 - 1
                      THEN args.start_epoch
                      ELSE resume_start_epoch(package)
            IN /\ start_epoch' = se
               /\ epoch_iter' = se
               /\ start_iter' = resume_start_iter(package)
               /\ avg_loss' = <<package.avg_loss, 1>>
               /\ lr' = PackageLr
               /\ loss_results' = restore_results(loss_results, se)
               /\ cer_results' = restore_results(cer_results, se)
               /\ wer_results' = restore_results(wer_results, se)
       ELSE /\ start_epoch' = 0
            /\ epoch_iter' = 0
            /\ start_iter' = 0
            /\ avg_loss' = <<0, 1>>
            /\ UNCHANGED <<lr, loss_results, cer_results, wer_results>>
    /\ pc' = "epoch_head"
    /\ UNCHANGED <<compile_vars, steps_vars, iter_vars>>
    /\ UNCHANGED <<batch_loss, losses, eval_calls>>
    /\ UNCHANGED <<params, args, package, epoch, i, wer, cer, best_wer,
                   ckpt_writes, best_writes, train_summaries, eval_failures, exc>>

\* training.py:104-107  the epoch loop takes its next epoch, or ends
EpochHead ==
    /\ pc = "epoch_head"
    /\ IF epoch_iter < params.epochs
       THEN /\ epoch' = epoch_iter
            /\ epoch_iter' = epoch_iter + 1
            /\ i' = start_iter
            /\ pc' = "batch"
       ELSE /\ pc' = "done"
            /\ UNCHANGED <<epoch, epoch_iter, i>>
    /\ UNCHANGED <<compile_vars, steps_vars, iter_vars>>
    /\ UNCHANGED <<batch_loss, losses, eval_calls>>
    /\ UNCHANGED <<params, args, package, start_epoch, start_iter, avg_loss, wer,
                   cer, best_wer, lr, loss_results, wer_results, cer_results,
                   ckpt_writes, best_writes, train_summaries, eval_failures, exc>>

\* x + y on fractions; an infinite term (zero denominator) makes the sum
\* infinite, +inf and -inf together give <<0, 0>> (nan)
Plus(x, y) == <<x[1] * y[2] + y[1] * x[2], x[2] * y[2]>>

\* training.py:133-134  loss_sum == inf or loss_sum == -inf
is_inf(x) == x[2] = 0 /\ x[1] # 0

\* A slip: only +inf is looked for.
loss_value_PlusInfOnly(x) == IF x[2] = 0 /\ x[1] > 0 THEN <<0, 1>> ELSE x

\* training.py:132-138  the value added to the running sum
loss_value(x) == IF is_inf(x) THEN <<0, 1>> ELSE x

\* A slip: the i == len(train_loader) break is left out.
loop_over_NoBreak(n, start, len) == n - start = len

\* training.py:107-109  the loader is exhausted after len items, or the
\* counter reaches len
loop_over(n, start, len) == n - start = len \/ n = len

\* training.py:107-164  one pass of the batch loop: the loop is over, or the
\* batch, whose loss is one of batch_losses, is trained on
BatchOf(batch_losses) ==
    /\ pc = "batch"
    /\ IF loop_over(i, start_iter, params.len_train_loader)
       THEN /\ pc' = "summary"
            /\ UNCHANGED <<i, batch_loss, avg_loss, losses>>
       ELSE \E l \in batch_losses :
              /\ batch_loss' = l
              /\ avg_loss' = Plus(avg_loss, loss_value(l))
              /\ losses' = [val |-> loss_value(l)]
              /\ i' = i + 1
              /\ pc' = "batch"
    /\ UNCHANGED <<compile_vars, steps_vars, iter_vars>>
    /\ UNCHANGED eval_calls
    /\ UNCHANGED <<params, args, package, start_epoch, start_iter, epoch_iter,
                   epoch, wer, cer, best_wer, lr, loss_results, wer_results,
                   cer_results, ckpt_writes, best_writes, train_summaries,
                   eval_failures, exc>>

\* The batch loop on a data set whose losses are all finite.
Batch == BatchOf(LossValues)

\* The batch loop on a data set that also yields infinite losses.
BatchWithInf == BatchOf(LossValuesWithInf)

\* training.py:166-173
Summary ==
    /\ pc = "summary"
    /\ avg_loss' = <<avg_loss[1], avg_loss[2] * params.len_train_loader>>
    /\ train_summaries' = Append(train_summaries, epoch + 1)
    /\ start_iter' = 0
    /\ pc' = "eval"
    /\ UNCHANGED <<compile_vars, steps_vars, iter_vars>>
    /\ UNCHANGED <<batch_loss, losses, eval_calls>>
    /\ UNCHANGED <<params, args, package, start_epoch, epoch_iter, epoch, i, wer,
                   cer, best_wer, lr, loss_results, wer_results, cer_results,
                   ckpt_writes, best_writes, eval_failures, exc>>

\* A slip: the handler gives wer and cer a fallback value.
Eval_FallbackOnFailure ==
    /\ pc = "eval"
    /\ eval_calls' = eval_calls + 1
    /\ \/ \E w \in WerValues, c \in CerValues :
            /\ wer' = Just(w)
            /\ cer' = Just(c)
            /\ UNCHANGED eval_failures
       \/ /\ eval_failures' = eval_failures \cup {epoch}
          /\ wer' = Just(100)
          /\ cer' = Just(100)
    /\ pc' = "record"
    /\ UNCHANGED <<compile_vars, steps_vars, iter_vars>>
    /\ UNCHANGED <<batch_loss, losses>>
    /\ UNCHANGED <<params, args, package, start_epoch, start_iter, epoch_iter,
                   epoch, i, avg_loss, best_wer, lr, loss_results, wer_results,
                   cer_results, ckpt_writes, best_writes, train_summaries, exc>>

\* training.py:175-179  eval_model returns (wer, cer), or raises RuntimeError,
\* which is caught and leaves wer and cer as they were
Eval ==
    /\ pc = "eval"
    /\ eval_calls' = eval_calls + 1
    /\ \/ \E w \in WerValues, c \in CerValues :
            /\ wer' = Just(w)
            /\ cer' = Just(c)
            /\ UNCHANGED eval_failures
       \/ /\ eval_failures' = eval_failures \cup {epoch}
          /\ UNCHANGED <<wer, cer>>
    /\ pc' = "record"
    /\ UNCHANGED <<compile_vars, steps_vars, iter_vars>>
    /\ UNCHANGED <<batch_loss, losses>>
    /\ UNCHANGED <<params, args, package, start_epoch, start_iter, epoch_iter,
                   epoch, i, avg_loss, best_wer, lr, loss_results, wer_results,
                   cer_results, ckpt_writes, best_writes, train_summaries, exc>>

\* training.py:181-187  line 181 is executed before line 182 reads wer; an
\* unbound wer raises UnboundLocalError, which nothing catches
Record ==
    /\ pc = "record"
    /\ loss_results' = [loss_results EXCEPT ![epoch] = avg_loss]
    /\ IF wer = Nothing
       THEN /\ exc' = "UnboundLocalError"
            /\ pc' = "crashed"
            /\ UNCHANGED <<wer_results, cer_results>>
       ELSE /\ wer_results' = [wer_results EXCEPT ![epoch] = <<wer[1], 1>>]
            /\ cer_results' = [cer_results EXCEPT ![epoch] = <<cer[1], 1>>]
            /\ pc' = "checkpoint"
            /\ UNCHANGED exc
    /\ UNCHANGED <<compile_vars, steps_vars, iter_vars>>
    /\ UNCHANGED <<batch_loss, losses, eval_calls>>
    /\ UNCHANGED <<params, args, package, start_epoch, start_iter, epoch_iter,
                   epoch, i, avg_loss, wer, cer, best_wer, lr, ckpt_writes,
                   best_writes, train_summaries, eval_failures>>

\* training.py:191-192, 202-207  what the call of DeepSpeech.serialize is given:
\* the epoch, the optimizer (its learning rate) and the result arrays
serialized == [epoch |-> epoch, lr |-> lr, wer_results |-> wer_results]

\* training.py:196  lr / params.learning_anneal
annealed(rate, factor) == <<rate[1] * factor[2], rate[2] * factor[1]>>

\* A slip: the per-epoch file is saved after the anneal.
Checkpoint_AfterAnneal ==
    /\ pc = "checkpoint"
    /\ IF args.checkpoint
       THEN ckpt_writes' =
              Append(ckpt_writes,
                     [file |-> epoch + 1,
                      content |-> [serialized EXCEPT
                          !.lr = annealed(lr, params.learning_anneal)]])
       ELSE UNCHANGED ckpt_writes
    /\ pc' = "anneal"
    /\ UNCHANGED <<compile_vars, steps_vars, iter_vars>>
    /\ UNCHANGED <<batch_loss, losses, eval_calls>>
    /\ UNCHANGED <<params, args, package, start_epoch, start_iter, epoch_iter,
                   epoch, i, avg_loss, wer, cer, best_wer, lr, loss_results,
                   wer_results, cer_results, best_writes, train_summaries,
                   eval_failures, exc>>

\* training.py:189-193
Checkpoint ==
    /\ pc = "checkpoint"
    /\ IF args.checkpoint
       THEN ckpt_writes' = Append(ckpt_writes,
                                  [file |-> epoch + 1, content |-> serialized])
       ELSE UNCHANGED ckpt_writes
    /\ pc' = "anneal"
    /\ UNCHANGED <<compile_vars, steps_vars, iter_vars>>
    /\ UNCHANGED <<batch_loss, losses, eval_calls>>
    /\ UNCHANGED <<params, args, package, start_epoch, start_iter, epoch_iter,
                   epoch, i, avg_loss, wer, cer, best_wer, lr, loss_results,
                   wer_results, cer_results, best_writes, train_summaries,
                   eval_failures, exc>>

\* training.py:194-198
Anneal ==
    /\ pc = "anneal"
    /\ lr' = annealed(lr, params.learning_anneal)
    /\ pc' = "best"
    /\ UNCHANGED <<compile_vars, steps_vars, iter_vars>>
    /\ UNCHANGED <<batch_loss, losses, eval_calls>>
    /\ UNCHANGED <<params, args, package, start_epoch, start_iter, epoch_iter,
                   epoch, i, avg_loss, wer, cer, best_wer, loss_results,
                   wer_results, cer_results, ckpt_writes, best_writes,
                   train_summaries, eval_failures, exc>>

\* A slip: a tie with the best counts as an improvement.
better_OrEqual(best, w) == best = Nothing \/ best[1] >= w[1]

\* training.py:200  best_wer is None or best_wer > wer
better(best, w) == best = Nothing \/ best[1] > w[1]

\* training.py:200-209
Best ==
    /\ pc = "best"
    /\ IF better(best_wer, wer)
       THEN /\ best_writes' = Append(best_writes, serialized)
            /\ best_wer' = wer
       ELSE UNCHANGED <<best_writes, best_wer>>
    /\ pc' = "exit_check"
    /\ UNCHANGED <<compile_vars, steps_vars, iter_vars>>
    /\ UNCHANGED <<batch_loss, losses, eval_calls>>
    /\ UNCHANGED <<params, args, package, start_epoch, start_iter, epoch_iter,
                   epoch, i, avg_loss, wer, cer, lr, loss_results, wer_results,
                   cer_results, ckpt_writes, train_summaries, eval_failures, exc>>

\* A slip: the target is compared the wrong way round.
exit_now_Reversed(p, best, acc) == p.exit_at_acc /\ best[1] >= acc

\* training.py:215  params.exit_at_acc and (best_wer <= args.acc)
exit_now(p, best, acc) == p.exit_at_acc /\ best[1] <= acc

\* training.py:211-216
ExitCheck ==
    /\ pc = "exit_check"
    /\ avg_loss' = <<0, 1>>
    /\ IF exit_now(params, best_wer, args.acc)
       THEN pc' = "done"
       ELSE pc' = "epoch_head"
    /\ UNCHANGED <<compile_vars, steps_vars, iter_vars>>
    /\ UNCHANGED <<batch_loss, losses, eval_calls>>
    /\ UNCHANGED <<params, args, package, start_epoch, start_iter, epoch_iter,
                   epoch, i, wer, cer, best_wer, lr, loss_results, wer_results,
                   cer_results, ckpt_writes, best_writes, train_summaries,
                   eval_failures, exc>>

TrainNext ==
    \/ LoadCheckpoint
    \/ EpochHead
    \/ Batch
    \/ Summary
    \/ Eval
    \/ Record
    \/ Checkpoint
    \/ Anneal
    \/ Best
    \/ ExitCheck

TrainSpec == TrainInit /\ [][TrainNext]_vars

\* A run from scratch on a data set that also yields infinite losses, over
\* fewer epochs.
LossInit == TrainInit /\ params.epochs <= MaxLossEpochs /\ ~args.continue_from

LossNext ==
    \/ LoadCheckpoint
    \/ EpochHead
    \/ BatchWithInf
    \/ Summary
    \/ Eval
    \/ Record
    \/ Checkpoint
    \/ Anneal
    \/ Best
    \/ ExitCheck

LossSpec == LossInit /\ [][LossNext]_vars

\* Runs from scratch with --checks_per_epoch given on the command line.
ChecksInit == TrainInitOf(ArgsWithChecks) /\ ~args.continue_from

ChecksNext ==
    \/ LoadCheckpoint
    \/ EpochHead
    \/ Batch
    \/ Summary
    \/ Eval
    \/ Record
    \/ Checkpoint
    \/ Anneal
    \/ Best
    \/ ExitCheck

ChecksSpec == ChecksInit /\ [][ChecksNext]_vars

(***************************************************************************)
(* Specifications of the image-classification parts                        *)
(***************************************************************************)
CompileInit == CompileIdle /\ StepsIdle /\ IterIdle /\ TrainIdle

CompileNext ==
    /\ \E id \in ModelIds, loss \in LossArgs, train_step \in TrainStepArgs,
          validation_step \in ValidationStepArgs :
          compile_model(id, loss, train_step, validation_step)
    /\ UNCHANGED <<steps_vars, iter_vars, train_vars>>

CompileSpec == CompileInit /\ [][CompileNext]_vars

StepsInit ==
    /\ CompileIdle /\ IterIdle /\ TrainIdle
    /\ steps_args \in [steps_in_current_epoch : StepInputs,
                       steps_per_epoch : StepInputs,
                       steps_per_loop : StepInputs]
    /\ steps_result = Pending

StepsNext == CallStepsToRun /\ UNCHANGED <<compile_vars, iter_vars, train_vars>>

StepsSpec == StepsInit /\ [][StepsNext]_vars

IterInit ==
    /\ CompileIdle /\ StepsIdle /\ TrainIdle
    /\ NUM_IMAGES \in [train : ImageCounts, validation : ImageCounts]
    /\ flags_obj \in [batch_size : BatchSizes, train_epochs : TrainEpochs,
                      train_steps : TrainStepsFlags,
                      steps_per_loop : StepsPerLoopFlags,
                      epochs_between_evals : EpochsBetweenEvals]
    /\ iter_result = Pending
    /\ controller_args = Pending

IterNext ==
    \/ CallGetNumTrainIterations
    \/ CreateController

IterSpec == IterInit /\ [][IterNext]_vars

(***************************************************************************)
(* Properties                                                              *)
(***************************************************************************)

\* C1: compile_model raises ValueError when loss and train_step are both
\* supplied and when both are absent, and returns normally when exactly one is
\* supplied; the raising call leaves every model as it was (not compiled, no
\* train_step/test_step replaced), the returning call compiles its model.
C1_CompileModelChecksBeforeCompiling ==
    [][ncalls' = ncalls + 1 =>
        LET both == call'.loss # None /\ call'.train_step # None
            neither == call'.loss = None /\ call'.train_step = None
        IN IF both \/ neither
           THEN call'.outcome = "ValueError" /\ models' = models
           ELSE call'.outcome = "returned" /\ models'[call'.model].compiled]_vars

\* A rejected call with neither argument, on a model an earlier call compiled.
C1_Witness ==
    /\ call.outcome = "ValueError"
    /\ call.loss = None /\ call.train_step = None
    /\ models[call.model].compiled
    /\ \E m \in ModelIds : ~models[m].compiled

\* C2 as stated: compile_model raises if and only if exactly one of
\* loss/train_step is missing.
C2_RaisesIffExactlyOneMissing ==
    ncalls > 0 =>
        ((call.outcome = "ValueError") <=>
            ((call.loss = None) # (call.train_step = None)))

\* C2 amended: compile_model raises if and only if loss and train_step are
\* both supplied or both absent; with exactly one supplied it returns.
C2_RaisesIffBothOrNeither ==
    ncalls > 0 =>
        ((call.outcome = "ValueError") <=>
            \/ (call.loss # None /\ call.train_step # None)
            \/ (call.loss = None /\ call.train_step = None))

\* A call with both loss and train_step supplied was rejected.
C2_Witness ==
    /\ ncalls > 0
    /\ call.loss # None /\ call.train_step # None
    /\ call.outcome = "ValueError"

\* C3: _steps_to_run raises ValueError when steps_per_loop <= 0, returns 1 when
\* steps_per_loop == 1 whatever remains of the epoch, and otherwise returns the
\* smaller of steps_per_loop and steps_per_epoch - steps_in_current_epoch.
C3_StepsToRun ==
    steps_result.status # "pending" =>
        LET a == steps_args
            remaining == a.steps_per_epoch - a.steps_in_current_epoch
            r == steps_result
        IN /\ a.steps_per_loop <= 0 => r.status = "ValueError"
           /\ a.steps_per_loop = 1 => r.status = "returned" /\ r.value = 1
           /\ a.steps_per_loop > 1 =>
                /\ r.status = "returned"
                /\ r.value <= a.steps_per_loop /\ r.value <= remaining
                /\ r.value \in {a.steps_per_loop, remaining}

\* steps_per_loop == 1 with nothing left in the epoch still returns 1.
C3_Witness ==
    /\ steps_result.status = "returned"
    /\ steps_args.steps_per_loop = 1
    /\ steps_args.steps_per_epoch = steps_args.steps_in_current_epoch
    /\ steps_result.value = 1

\* C4: get_num_train_iterations returns (NUM_IMAGES['train'] // batch_size,
\* train_epochs, eval_steps) when the train_steps flag is 0 (1000 images, batch
\* 10, 5 epochs give (100, 5, eval_steps)), and (train_steps, 1, eval_steps)
\* when the flag is nonzero and smaller than the computed steps; eval_steps is
\* the ceiling of NUM_IMAGES['validation'] / batch_size.
C4_GetNumTrainIterations ==
    iter_result.status = "returned" =>
        LET r == iter_result.value
            b == flags_obj.batch_size
        IN /\ flags_obj.train_steps = 0 =>
                /\ r.train_steps * b <= NUM_IMAGES.train
                /\ NUM_IMAGES.train < (r.train_steps + 1) * b
                /\ r.train_epochs = flags_obj.train_epochs
           /\ (flags_obj.train_steps # 0
               /\ (flags_obj.train_steps + 1) * b <= NUM_IMAGES.train) =>
                /\ r.train_steps = flags_obj.train_steps
                /\ r.train_epochs = 1
           /\ (NUM_IMAGES.train = 1000 /\ b = 10 /\ flags_obj.train_epochs = 5
               /\ flags_obj.train_steps = 0) =>
                r.train_steps = 100 /\ r.train_epochs = 5
           /\ r.eval_steps * b >= NUM_IMAGES.validation
           /\ (r.eval_steps - 1) * b < NUM_IMAGES.validation

\* An override smaller than the computed steps, with more than one epoch asked
\* for and a validation set the batch size does not divide.
C4_Witness ==
    /\ iter_result.status = "returned"
    /\ flags_obj.train_steps # 0
    /\ flags_obj.train_steps < NUM_IMAGES.train \div flags_obj.batch_size
    /\ flags_obj.train_epochs > 1
    /\ NUM_IMAGES.validation % flags_obj.batch_size # 0
    /\ iter_result.value.train_steps = flags_obj.train_steps
    /\ iter_result.value.train_epochs = 1

\* C5: resuming with --start_epoch left at -1, a checkpoint without
\* 'iteration' gives start_epoch = ('epoch' - 1) + 1 and start_iter = 0; a
\* checkpoint with 'iteration' gives start_iter = 'iteration' + 1 and leaves
\* start_epoch at 'epoch' - 1.
C5_ResumePosition ==
    [][(pc = "load" /\ args.continue_from /\ args.start_epoch = 0 - 1
        /\ package.epoch # Nothing) =>
        IF package.iteration = Nothing
        THEN start_epoch' = (package.epoch[1] - 1) + 1 /\ start_iter' = 0
        ELSE /\ start_epoch' = package.epoch[1] - 1
             /\ start_iter' = package.iteration[1] + 1]_vars

\* A mid-epoch checkpoint was loaded and the loop is about to start.
C5_Witness ==
    /\ pc = "epoch_head" /\ train_summaries = <<>>
    /\ args.continue_from /\ args.start_epoch = 0 - 1
    /\ package.epoch = Just(2) /\ package.iteration = Just(0)
    /\ start_epoch = 1 /\ start_iter = 1

\* The epochs the loop has entered, in order.
EnteredEpochs == [n \in 1 .. Max(0, epoch_iter - start_epoch) |-> start_epoch + n - 1]

\* C6: when the run is over, one training summary was printed per executed
\* epoch and, with --checkpoint, one file deepspeech_<epoch+1>.pth was written
\* per executed epoch; without --checkpoint none was written.
C6_OneSummaryAndOneFilePerEpoch ==
    pc \in {"done", "crashed"} =>
        /\ train_summaries = [n \in DOMAIN EnteredEpochs |-> EnteredEpochs[n] + 1]
        /\ IF args.checkpoint
           THEN [n \in DOMAIN ckpt_writes |-> ckpt_writes[n].file] = train_summaries
           ELSE ckpt_writes = <<>>

\* C7: a RuntimeError of eval_model never makes an exception leave main():
\* whichever epochs failed to evaluate, the run has not crashed.
C7_EvalFailureNeverPropagates ==
    eval_failures # {} => (exc = "none" /\ pc # "crashed")

\* A bound on the steps main() still takes: a whole epoch costs less than
\* EpochCost, and every position inside an epoch has its rank.
EpochCost == 10 + 2 * params.len_train_loader
Rank ==
    CASE pc = "load" -> EpochCost + 2
      [] pc = "epoch_head" -> 1
      [] pc = "batch" -> 9 + (params.len_train_loader + start_iter - i)
      [] pc = "summary" -> 8
      [] pc = "eval" -> 7
      [] pc = "record" -> 6
      [] pc = "checkpoint" -> 5
      [] pc = "anneal" -> 4
      [] pc = "best" -> 3
      [] pc = "exit_check" -> 2
      [] OTHER -> 0
Measure == Max(0, params.epochs - epoch_iter) * EpochCost + Rank

\* C8: the epoch loop terminates (every step lowers a non-negative measure),
\* it enters at most params.epochs - start_epoch epochs (none when that is
\* negative), and an epoch that ends with exit_at_acc set and
\* best_wer <= args.acc is the last one: the loop is left at once, and it is
\* left only then or when the epochs are exhausted.
C8_LoopTerminates ==
    [][/\ Measure >= 0 /\ Measure' >= 0 /\ Measure' < Measure
       /\ epoch_iter' - start_epoch' <= Max(0, params.epochs - start_epoch')
       /\ (pc = "exit_check" /\ params.exit_at_acc /\ best_wer[1] <= args.acc) =>
            (pc' = "done" /\ epoch_iter' = epoch_iter)
       /\ (pc = "exit_check" /\ ~(params.exit_at_acc /\ best_wer[1] <= args.acc)) =>
            pc' = "epoch_head"
       /\ pc \in {"done", "crashed"} => pc' = pc]_vars

\* The target was reached with epochs left over, and the run is over.
C8_Witness ==
    /\ pc = "done"
    /\ params.exit_at_acc /\ best_wer # Nothing /\ best_wer[1] <= args.acc
    /\ epoch_iter < params.epochs
    /\ Len(train_summaries) = 2

\* C9: at the end of an epoch the best-model checkpoint is written exactly when
\* no best exists yet or the epoch's WER is strictly lower than best_wer;
\* best_wer never increases, it is then the minimum of the WERs recorded by the
\* epochs of this run, and the latest file at model_path was written in an
\* epoch that recorded that minimum. No other step touches either.
C9_BestCheckpoint ==
    [][IF pc = "best"
       THEN LET mine == start_epoch .. epoch
                this == wer_results[epoch][1]
                improved == best_wer = Nothing \/ this < best_wer[1]
                latest == best_writes'[Len(best_writes')]
            IN /\ improved => best_writes' = Append(best_writes, latest)
               /\ ~improved => best_writes' = best_writes
               /\ best_wer' # Nothing
               /\ best_wer # Nothing => best_wer'[1] <= best_wer[1]
               /\ \A e \in mine : best_wer'[1] <= wer_results[e][1]
               /\ best_writes' # <<>>
               /\ latest.epoch \in mine
               /\ latest.wer_results[latest.epoch][1] = best_wer'[1]
               /\ improved => latest.epoch = epoch
       ELSE best_wer' = best_wer /\ best_writes' = best_writes]_vars

\* Three epochs ran: two of them improved on the best, one did not.
C9_Witness ==
    /\ pc = "done"
    /\ Len(train_summaries) = 3
    /\ Len(best_writes) = 2
    /\ best_writes[2].epoch = 2

RECURSIVE Pow(_, _)
Pow(b, n) == IF n = 0 THEN 1 ELSE b * Pow(b, n - 1)

\* The learning rate the optimizer holds when the epoch loop starts.
LrAtLoopStart == IF args.continue_from THEN PackageLr ELSE InitialLr

\* C10: between epochs and when the run is over, the learning rate is its
\* value at loop start divided by learning_anneal once for each executed epoch
\* (each epoch whose batch loop ran and whose summary was printed), the epochs
\* whose evaluation failed included.
C10_AnnealedOncePerExecutedEpoch ==
    pc \in {"epoch_head", "done", "crashed"} =>
        LET k == Len(train_summaries)
            f == params.learning_anneal
        IN lr[1] * (LrAtLoopStart[2] * Pow(f[1], k))
             = (LrAtLoopStart[1] * Pow(f[2], k)) * lr[2]

\* Equality of two finite fractions.
SameFraction(x, y) == x[2] # 0 /\ y[2] # 0 /\ x[1] * y[2] = y[1] * x[2]

\* C11: a batch whose loss is +inf or -inf adds exactly 0 to avg_loss and
\* gives 0 to the losses meter, a batch with a finite loss adds and gives that
\* loss; the running sum is finite after every step.
C11_InfiniteLossCountsAsZero ==
    [][/\ (pc = "batch" /\ i' = i + 1) =>
            IF batch_loss' \in {<<1, 0>>, <<0 - 1, 0>>}
            THEN /\ SameFraction(avg_loss', avg_loss)
                 /\ SameFraction(losses'.val, <<0, 1>>)
            ELSE /\ batch_loss'[2] # 0
                 /\ SameFraction(avg_loss', Plus(avg_loss, batch_loss'))
                 /\ SameFraction(losses'.val, batch_loss')
       /\ avg_loss'[2] # 0]_vars

\* After a finite loss of 2, a batch with loss -inf left the sum at 2.
C11_Witness ==
    /\ pc = "batch" /\ i = 2 /\ start_iter = 0
    /\ batch_loss = <<0 - 1, 0>>
    /\ SameFraction(avg_loss, <<2, 1>>)
    /\ SameFraction(losses.val, <<0, 1>>)

\* The epochs of this run before e whose evaluation succeeded, and the latest
\* of them.
EvaluatedBefore(e) == {x \in start_epoch .. (e - 1) : x \notin eval_failures}
LastEvaluatedBefore(e) ==
    CHOOSE x \in EvaluatedBefore(e) : \A y \in EvaluatedBefore(e) : y <= x

\* C12: in an epoch whose evaluation raised RuntimeError, after an earlier
\* successful evaluation in the run, the WER and CER recorded in
\* wer_results[epoch] and cer_results[epoch] are those of the most recent
\* successful evaluation, and that WER is the one compared with best_wer.
C12_StaleErrorRatesAfterFailedEval ==
    [][/\ (pc = "record" /\ epoch \in eval_failures
           /\ EvaluatedBefore(epoch) # {}) =>
            /\ pc' = "checkpoint"
            /\ wer_results'[epoch] = wer_results[LastEvaluatedBefore(epoch)]
            /\ cer_results'[epoch] = cer_results[LastEvaluatedBefore(epoch)]
       /\ (pc = "best" /\ epoch \in eval_failures
           /\ EvaluatedBefore(epoch) # {}) =>
            /\ wer = Just(wer_results[epoch][1])
            /\ wer = Just(wer_results[LastEvaluatedBefore(epoch)][1])
            /\ cer = Just(cer_results[LastEvaluatedBefore(epoch)][1])]_vars

\* The evaluation succeeded in epoch 0 and failed in epochs 1 and 2: epoch 2
\* recorded the rates of epoch 0.
C12_Witness ==
    /\ pc = "checkpoint" /\ epoch = 2 /\ start_epoch = 0
    /\ eval_failures = {1, 2}
    /\ wer_results[0] = <<10, 1>> /\ wer_results[2] = <<10, 1>>
    /\ cer_results[0] = <<8, 1>> /\ cer_results[2] = <<8, 1>>

\* C13: between epochs, every epoch run so far has made checks_per_epoch
\* evaluations and, with --checkpoint, checks_per_epoch checkpoint saves.
C13_ChecksPerEpochEvaluationsAndSaves ==
    pc \in {"epoch_head", "done"} =>
        /\ eval_calls = Len(train_summaries) * args.checks_per_epoch
        /\ args.checkpoint =>
               Len(ckpt_writes) = Len(train_summaries) * args.checks_per_epoch

\* The entries of an epoch-indexed array other than entry e stay as they are.
OthersUnchanged(results, e) ==
    \A x \in Epochs(params) \ {e} : results[2][x] = results[1][x]

\* C14: the three result arrays have one entry per epoch of params.epochs;
\* the recording step of each executed epoch writes the entry at index epoch
\* of each of the three, that index lies in 0 .. params.epochs - 1, and no
\* other entry changes; no other step of the epoch loop changes the arrays.
C14_ResultArraysWrittenOncePerEpoch ==
    [][/\ DOMAIN loss_results' = Epochs(params)
       /\ DOMAIN wer_results' = Epochs(params)
       /\ DOMAIN cer_results' = Epochs(params)
       /\ pc = "record" =>
            /\ epoch \in Epochs(params)
            /\ OthersUnchanged(<<loss_results, loss_results'>>, epoch)
            /\ OthersUnchanged(<<wer_results, wer_results'>>, epoch)
            /\ OthersUnchanged(<<cer_results, cer_results'>>, epoch)
            /\ loss_results'[epoch] = avg_loss
            /\ wer # Nothing /\ wer_results'[epoch] = <<wer[1], 1>>
            /\ cer # Nothing /\ cer_results'[epoch] = <<cer[1], 1>>
       /\ pc \notin {"record", "load"} =>
            UNCHANGED <<loss_results, wer_results, cer_results>>]_vars

\* The loss sum the run carries into the epoch it starts with.
carried_loss(e) ==
    IF e = start_epoch /\ args.continue_from THEN package.avg_loss ELSE 0

\* C15: when an epoch's batches are over, the first executed epoch has
\* processed len(train_loader) - start_iter batches, with start_iter between
\* 0 and len(train_loader), every later epoch has processed all of them
\* with start_iter = 0; the summary step resets start_iter to 0 and divides
\* the epoch's loss sum by the full len(train_loader).
C15_ResumedEpochRunsRemainingBatches ==
    [][pc = "summary" =>
        LET L == params.len_train_loader
            processed == i - start_iter
        IN /\ start_iter \in 0 .. L
           /\ IF epoch = start_epoch
              THEN processed = L - start_iter
              ELSE start_iter = 0 /\ processed = L
           /\ SameFraction(avg_loss, <<carried_loss(epoch) + processed, 1>>)
           /\ start_iter' = 0
           /\ SameFraction(avg_loss',
                           <<carried_loss(epoch) + processed, L>>)]_vars

\* A run resumed after the first of two batches has summarised its first
\* epoch, of one batch, and its second, of two.
C15_Witness ==
    /\ pc = "eval" /\ args.continue_from
    /\ package.iteration = Just(0) /\ params.len_train_loader = 2
    /\ epoch = start_epoch + 1
    /\ Len(train_summaries) = 2
    /\ i = 2 /\ start_iter = 0
    /\ SameFraction(avg_loss, <<2, 2>>)

\* rate divided n times by factor
annealed_times(rate, factor, n) ==
    <<rate[1] * Pow(factor[2], n), rate[2] * Pow(factor[1], n)>>

\* The learning rates (as the unreduced fractions the steps produce) in the
\* files saved so far: deepspeech_<e+1>.pth holds
\* the rate after the anneals of the run's epochs before e, a best-model file
\* saved in epoch e the rate after the anneal of epoch e as well, and both
\* hold the error rate recorded for epoch e.
SavedLearningRates ==
    LET f == params.learning_anneal
    IN /\ \A k \in DOMAIN ckpt_writes :
            LET c == ckpt_writes[k].content
            IN /\ ckpt_writes[k].file = c.epoch + 1
               /\ c.wer_results[c.epoch] # Uninit
               /\ c.lr = annealed_times(LrAtLoopStart, f,
                                        c.epoch - start_epoch)
       /\ \A j \in DOMAIN best_writes :
            LET b == best_writes[j]
            IN /\ b.wer_results[b.epoch] # Uninit
               /\ b.lr = annealed_times(LrAtLoopStart, f,
                                        b.epoch - start_epoch + 1)
       /\ \A k \in DOMAIN ckpt_writes : \A j \in DOMAIN best_writes :
            ckpt_writes[k].content.epoch = best_writes[j].epoch =>
                /\ best_writes[j].lr = annealed(ckpt_writes[k].content.lr, f)
                /\ f[1] # f[2]

\* C16: after an epoch's batches the steps come in the order evaluation,
\* recording, per-epoch checkpoint save, anneal, best-model save, exit check
\* (recording being the last one when it fails); the per-epoch file holds the
\* learning rate from before the epoch's anneal and a best-model file saved
\* in the same epoch the rate after it.
C16_PostTrainingOrder ==
    [][/\ pc = "eval" => pc' = "record"
       /\ pc = "record" => pc' \in {"checkpoint", "crashed"}
       /\ pc = "checkpoint" =>
            /\ pc' = "anneal" /\ lr' = lr
            /\ Len(ckpt_writes') =
                 Len(ckpt_writes) + (IF args.checkpoint THEN 1 ELSE 0)
            /\ UNCHANGED <<best_writes, best_wer, wer_results>>
       /\ pc = "anneal" =>
            /\ pc' = "best"
            /\ lr' = annealed(lr, params.learning_anneal)
            /\ UNCHANGED <<ckpt_writes, best_writes, best_wer, wer_results>>
       /\ pc = "best" =>
            /\ pc' = "exit_check" /\ lr' = lr
            /\ Len(best_writes') \in {Len(best_writes), Len(best_writes) + 1}
            /\ UNCHANGED <<ckpt_writes, wer_results>>
       /\ pc = "exit_check" =>
            /\ pc' \in {"epoch_head", "done"}
            /\ UNCHANGED <<lr, ckpt_writes, best_writes, best_wer>>
       /\ (ckpt_writes' # ckpt_writes \/ best_writes' # best_writes) =>
            SavedLearningRates']_vars

\* The first epoch of a run from scratch saved deepspeech_1.pth with the
\* initial learning rate and then the best model with the annealed one.
C16_Witness ==
    /\ pc = "exit_check" /\ ~args.continue_from /\ epoch = 0
    /\ Len(ckpt_writes) = 1 /\ Len(best_writes) = 1
    /\ ckpt_writes[1].file = 1
    /\ ckpt_writes[1].content.lr = InitialLr
    /\ best_writes[1].epoch = 0
    /\ best_writes[1].lr = annealed(InitialLr, params.learning_anneal)

\* C17: the train_steps returned by get_num_train_iterations never exceeds
\* NUM_IMAGES['train'] // batch_size, an override larger than that quotient
\* gives the quotient, and train_epochs is 1 whenever the train_steps flag is
\* nonzero; run() hands the Controller per_epoch_steps * train_epochs as
\* train_steps and a steps_per_loop no greater than per_epoch_steps.
C17_TrainStepsCappedAndControllerTotals ==
    /\ iter_result.status = "returned" =>
         LET r == iter_result.value
             b == flags_obj.batch_size
         IN /\ r.train_steps * b <= NUM_IMAGES.train
            /\ (flags_obj.train_steps # 0
                /\ flags_obj.train_steps * b > NUM_IMAGES.train) =>
                 NUM_IMAGES.train < (r.train_steps + 1) * b
            /\ flags_obj.train_steps # 0 => r.train_epochs = 1
    /\ controller_args.status = "returned" =>
         LET r == iter_result.value
             c == controller_args.value
         IN /\ c.train_steps = r.train_steps * r.train_epochs
            /\ c.steps_per_loop <= r.train_steps
            /\ c.steps_per_loop <= flags_obj.steps_per_loop

\* An override larger than the computed steps, with more than one epoch
\* asked for and a steps_per_loop larger than an epoch has steps.
C17_Witness ==
    /\ controller_args.status = "returned"
    /\ flags_obj.train_steps = 3 /\ flags_obj.batch_size = 3
    /\ NUM_IMAGES.train = 6 /\ flags_obj.train_epochs = 2
    /\ flags_obj.steps_per_loop = 3
    /\ iter_result.value.train_steps = 2
    /\ iter_result.value.train_epochs = 1
    /\ controller_args.value.train_steps = 2
    /\ controller_args.value.steps_per_loop = 2

====
